---- MODULE Spec2Model ----
(***************************************************************************)
(* Transfer-hook whitelist program (programs/transfer-hook/src/lib.rs).    *)
(*                                                                         *)
(* One singleton WhiteList account {authority, white_list}, one            *)
(* ExtraAccountMetaList account per mint, and four instructions:           *)
(* initialize_extra_account_meta_list, transfer_hook, add_to_whitelist,    *)
(* remove_from_whitelist.  Every instruction runs inside a transaction of  *)
(* the ledger: a failing instruction (returned error or panic) commits     *)
(* nothing.  The token program (Token-2022) is the transfer engine: it     *)
(* sets the `transferring` flag of the source token account, invokes       *)
(* transfer_hook, and clears the flag again, all inside one transaction.   *)
(***************************************************************************)
EXTENDS Integers, Sequences, FiniteSets, TLC

\* ------------------------------------------------------------------ bounds
MaxLen == 3             \* longest whitelist explored
MaxAmount == 2          \* transfer amounts 1..MaxAmount
InitialBalance == 1     \* starting balance of every token account

\* ------------------------------------------------- program constants
Space == 400                 \* space = 400 of the white_list account
DiscriminatorBytes == 8      \* #[account] discriminator
PubkeyBytes == 32            \* one Pubkey
VecPrefixBytes == 4          \* Borsh length prefix of Vec<Pubkey>

\* Keys are opaque values the program only compares for equality.
NoKey == "default"           \* Pubkey::default(), the zeroed authority
Signers == {"A", "B"}        \* identities that sign transactions
Pubkey == {"X", "Y", "Z"}    \* addresses given to add / remove / transfer_hook
\* M1 carries the transfer-hook extension naming this program; M2 does not.
Mints == {"M1", "M2"}
HookedMint == "M1"

\* ------------------------------------------------- token accounts
\* Every address is also a token account:  its mint, its owner
\* (token::authority) and whether it carries a TransferHookAccount extension
\* (Token-2022 gives one to every account of a mint with a transfer hook).
TokenMint(k) == IF k = "X" THEN "M2" ELSE "M1"
TokenOwner(k) == IF k = "Z" THEN "B" ELSE "A"
HasTransferHookAccount(k) == TokenMint(k) = HookedMint

VARIABLES
    initialized,              \* the white_list account exists
    authority,                \* WhiteList.authority
    white_list,               \* WhiteList.white_list
    extra_account_meta_list,  \* mint -> the mint's ExtraAccountMetaList exists
    balance,                  \* token account -> amount
    creator,                  \* payer of the call that created white_list
    last,                     \* the last instruction: arguments and outcome
    stage,                    \* how many steps of Scenario the run has followed
    pending                   \* transaction -> the instruction it has loaded

vars == <<initialized, authority, white_list, extra_account_meta_list,
          balance, creator, last, stage, pending>>

\* ------------------------------------------------- Vec<Pubkey>
contains_first_only(v, k) == Len(v) > 0 /\ v[1] = k

\* Vec::contains
contains(v, k) == \E i \in 1..Len(v) : v[i] = k

position_last(v, k) ==
    IF contains(v, k)
    THEN CHOOSE i \in 1..Len(v) : v[i] = k /\ \A j \in (i + 1)..Len(v) : v[j] # k
    ELSE 0

\* Iterator::position: index of the first match, 0 for None
position(v, k) ==
    IF contains(v, k)
    THEN CHOOSE i \in 1..Len(v) : v[i] = k /\ \A j \in 1..(i - 1) : v[j] # k
    ELSE 0

remove_all(v, i) == SelectSeq(v, LAMBDA x : x # v[i])

\* Vec::remove(index): later elements shift down
remove(v, i) == SubSeq(v, 1, i - 1) \o SubSeq(v, i + 1, Len(v))

push_front(v, k) == <<k>> \o v

\* Vec::push
push(v, k) == Append(v, k)

\* ------------------------------------------------- outcomes
\* TransferError variants (returned with err!)
TypedErrors == {"IsNotCurrentlyTransferring", "AccountNotFound"}
\* panic! sites
Panics == {"PanicNotInWhiteList", "PanicOnlyAuthorityAdd", "PanicOnlyAuthorityRemove"}
\* errors of account validation, of the token library and of the runtime
FrameworkErrors == {"AccountNotInitialized", "ConstraintTokenMint",
                    "ConstraintTokenOwner", "AccountAlreadyInUse",
                    "AccountDidNotSerialize", "ExtensionLookupError"}
\* failures of the transfer engine itself, before it reaches the hook
EngineErrors == {"InsufficientFunds", "MissingExtraAccountMetaList"}

\* ------------------------------------------------- WhiteList storage
\* bytes of a serialized WhiteList holding v
serialized_len(v) == DiscriminatorBytes + PubkeyBytes + VecPrefixBytes + PubkeyBytes * Len(v)

exit_white_list_unchecked(v) == "Ok"

\* exit of a `mut` Account<WhiteList>: the account is written back into its
\* fixed allocation; a value that does not fit fails the instruction
exit_white_list(v) == IF serialized_len(v) > Space THEN "AccountDidNotSerialize" ELSE "Ok"

\* init_if_needed: an existing account is loaded as it is, a missing one is
\* created zeroed (default authority, empty vector)
init_if_needed(exists, auth, v) ==
    IF exists THEN [authority |-> auth, white_list |-> v]
    ELSE [authority |-> NoKey, white_list |-> <<>>]

\* ------------------------------------------------- initialize
InitializeExtraAccountMetaList_if_needed(meta, mint) == "Ok"

\* account validation of InitializeExtraAccountMetaList: `init` of the mint's
\* ExtraAccountMetaList fails when that account already exists
InitializeExtraAccountMetaList(meta, mint) ==
    IF meta[mint] THEN "AccountAlreadyInUse" ELSE "Ok"

initialize_extra_account_meta_list_keep_authority(wl, payer) ==
    [result |-> "Ok", authority |-> wl.authority, white_list |-> wl.white_list]

\* the handler: it assigns authority and fills the ExtraAccountMetaList
initialize_extra_account_meta_list(wl, payer) ==
    [result |-> "Ok", authority |-> payer, white_list |-> wl.white_list]

InitializeInstruction_partial(exists, auth, v, meta, payer, mint) ==
    LET h == initialize_extra_account_meta_list(init_if_needed(exists, auth, v), payer)
    IN  [result |-> InitializeExtraAccountMetaList(meta, mint),
         authority |-> h.authority, white_list |-> h.white_list,
         initialized |-> TRUE, meta |-> [meta EXCEPT ![mint] = TRUE]]

\* the whole instruction; a failure commits nothing
InitializeInstruction(exists, auth, v, meta, payer, mint) ==
    LET before == [result |-> "Ok", authority |-> auth, white_list |-> v,
                   initialized |-> exists, meta |-> meta]
        checked == InitializeExtraAccountMetaList(meta, mint)
        h == initialize_extra_account_meta_list(init_if_needed(exists, auth, v), payer)
    IN  IF checked # "Ok" THEN [before EXCEPT !.result = checked]
        ELSE IF exit_white_list(h.white_list) # "Ok"
             THEN [before EXCEPT !.result = exit_white_list(h.white_list)]
        ELSE [result |-> "Ok", authority |-> h.authority, white_list |-> h.white_list,
              initialized |-> TRUE, meta |-> [meta EXCEPT ![mint] = TRUE]]

\* ------------------------------------------------- transfer_hook
check_is_transferring_off(marker) == "Ok"

check_is_transferring_absent_as_false(marker) ==
    IF marker # "true" THEN "IsNotCurrentlyTransferring" ELSE "Ok"

\* marker: the source token account's TransferHookAccount extension:
\* "absent", or its `transferring` flag "true" / "false".  An absent
\* extension is the error of the token library's lookup, propagated by `?`.
check_is_transferring(marker) ==
    IF marker = "absent" THEN "ExtensionLookupError"
    ELSE IF marker # "true" THEN "IsNotCurrentlyTransferring"
    ELSE "Ok"

transfer_hook_no_membership(v, marker, destination_token) ==
    check_is_transferring(marker)

transfer_hook_membership_first(v, marker, destination_token) ==
    IF ~contains(v, destination_token) THEN "PanicNotInWhiteList"
    ELSE check_is_transferring(marker)

\* the handler
transfer_hook(v, marker, destination_token) ==
    IF check_is_transferring(marker) # "Ok" THEN check_is_transferring(marker)
    ELSE IF ~contains(v, destination_token) THEN "PanicNotInWhiteList"
    ELSE "Ok"

\* account validation of TransferHook: the accounts are loaded (white_list
\* must exist), then the token::mint / token::authority constraints run
TransferHook(exists, source_token, mint, destination_token, owner) ==
    IF ~exists THEN "AccountNotInitialized"
    ELSE IF TokenMint(source_token) # mint THEN "ConstraintTokenMint"
    ELSE IF TokenOwner(source_token) # owner THEN "ConstraintTokenOwner"
    ELSE IF TokenMint(destination_token) # mint THEN "ConstraintTokenMint"
    ELSE "Ok"

transfer_hook_accounts_clear_marker(v, marker, destination_token) ==
    [white_list |-> v, marker |-> "false"]

\* what the handler leaves in the accounts it was given: it assigns to
\* neither white_list nor the source's extension
transfer_hook_accounts(v, marker, destination_token) ==
    [white_list |-> v, marker |-> marker]

TransferHookInstruction_amount_cap(exists, v, source_token, mint, destination_token, owner, marker, amount) ==
    IF TransferHook(exists, source_token, mint, destination_token, owner) # "Ok"
    THEN TransferHook(exists, source_token, mint, destination_token, owner)
    ELSE IF amount > 1 THEN "PanicNotInWhiteList"
    ELSE transfer_hook(v, marker, destination_token)

\* the whole instruction; `_amount` is received and not used
TransferHookInstruction(exists, v, source_token, mint, destination_token, owner, marker, amount) ==
    IF TransferHook(exists, source_token, mint, destination_token, owner) # "Ok"
    THEN TransferHook(exists, source_token, mint, destination_token, owner)
    ELSE transfer_hook(v, marker, destination_token)

\* the accounts after the instruction: the handler's when it returned Ok,
\* untouched when the instruction failed
TransferHookEffect(exists, v, source_token, mint, destination_token, owner, marker, amount) ==
    IF TransferHookInstruction(exists, v, source_token, mint, destination_token, owner,
                               marker, amount) = "Ok"
    THEN transfer_hook_accounts(v, marker, destination_token)
    ELSE [white_list |-> v, marker |-> marker]

\* the marker a token account holds between transfers
StoredMarker(k) == IF HasTransferHookAccount(k) THEN "false" ELSE "absent"

\* ------------------------------------------------- add / remove
add_to_whitelist(auth, v, signer, new_account) ==
    IF auth # signer THEN [result |-> "PanicOnlyAuthorityAdd", white_list |-> v]
    ELSE [result |-> "Ok", white_list |-> push(v, new_account)]

AddToWhiteList_unchecked(exists) == "Ok"

\* account validation of AddToWhiteList: white_list must exist
AddToWhiteList(exists) == IF ~exists THEN "AccountNotInitialized" ELSE "Ok"

AddInstruction(exists, auth, v, signer, new_account) ==
    LET h == add_to_whitelist(auth, v, signer, new_account)
    IN  IF AddToWhiteList(exists) # "Ok"
        THEN [result |-> AddToWhiteList(exists), white_list |-> v]
        ELSE IF h.result # "Ok" THEN [result |-> h.result, white_list |-> v]
        ELSE IF exit_white_list(h.white_list) # "Ok"
             THEN [result |-> exit_white_list(h.white_list), white_list |-> v]
        ELSE h

remove_from_whitelist_search_first(auth, v, signer, account_to_remove) ==
    IF position(v, account_to_remove) = 0
    THEN [result |-> "AccountNotFound", white_list |-> v]
    ELSE IF auth # signer THEN [result |-> "PanicOnlyAuthorityRemove", white_list |-> v]
    ELSE [result |-> "Ok", white_list |-> remove(v, position(v, account_to_remove))]

remove_from_whitelist_not_found_ok(auth, v, signer, account_to_remove) ==
    IF auth # signer THEN [result |-> "PanicOnlyAuthorityRemove", white_list |-> v]
    ELSE IF position(v, account_to_remove) # 0
         THEN [result |-> "Ok", white_list |-> remove(v, position(v, account_to_remove))]
    ELSE [result |-> "Ok", white_list |-> v]

remove_from_whitelist(auth, v, signer, account_to_remove) ==
    IF auth # signer THEN [result |-> "PanicOnlyAuthorityRemove", white_list |-> v]
    ELSE IF position(v, account_to_remove) # 0
         THEN [result |-> "Ok", white_list |-> remove(v, position(v, account_to_remove))]
    ELSE [result |-> "AccountNotFound", white_list |-> v]

\* account validation of RemoveFromWhiteList: white_list must exist
RemoveFromWhiteList(exists) == IF ~exists THEN "AccountNotInitialized" ELSE "Ok"

RemoveInstruction(exists, auth, v, signer, account_to_remove) ==
    LET h == remove_from_whitelist(auth, v, signer, account_to_remove)
    IN  IF RemoveFromWhiteList(exists) # "Ok"
        THEN [result |-> RemoveFromWhiteList(exists), white_list |-> v]
        ELSE IF h.result # "Ok" THEN [result |-> h.result, white_list |-> v]
        ELSE IF exit_white_list(h.white_list) # "Ok"
             THEN [result |-> exit_white_list(h.white_list), white_list |-> v]
        ELSE h

\* ------------------------------------------------- the transfer engine
\* A transfer of `amount` of the hooked mint: the engine checks the funds,
\* resolves the extra accounts from the mint's ExtraAccountMetaList, sets the
\* source's marker, invokes the hook, and moves the balances only when the
\* hook returned success.
EngineTransfer(exists, v, meta, bal, source_token, destination_token, amount) ==
    LET hook == TransferHookInstruction(exists, v, source_token, HookedMint,
                                        destination_token, TokenOwner(source_token), "true",
                                        amount)
        after == TransferHookEffect(exists, v, source_token, HookedMint,
                                    destination_token, TokenOwner(source_token), "true",
                                    amount)
        moved == [k \in Pubkey |->
                    bal[k] - (IF k = source_token THEN amount ELSE 0)
                           + (IF k = destination_token THEN amount ELSE 0)]
    IN  IF amount > bal[source_token]
        THEN [result |-> "InsufficientFunds", balance |-> bal, white_list |-> v,
              marker |-> "true"]
        ELSE IF ~meta[HookedMint]
        THEN [result |-> "MissingExtraAccountMetaList", balance |-> bal, white_list |-> v,
              marker |-> "true"]
        ELSE IF hook # "Ok"
        THEN [result |-> hook, balance |-> bal, white_list |-> v, marker |-> "true"]
        ELSE [result |-> "Ok", balance |-> moved, white_list |-> after.white_list,
              marker |-> after.marker]

\* ------------------------------------------------- the scenario
\* The calls of the scenario in order, each with the result and the
\* white_list it is to leave:  A initializes, adds X then Y; a transfer to Y
\* and one to Z with the marker set; a hook call for Y with the marker
\* clear; A removes X twice.
Scenario == <<
    [op |-> "initialize", signer |-> "A", key |-> NoKey, marker |-> "none",
     result |-> "Ok", list |-> <<>>],
    [op |-> "add", signer |-> "A", key |-> "X", marker |-> "none",
     result |-> "Ok", list |-> <<"X">>],
    [op |-> "add", signer |-> "A", key |-> "Y", marker |-> "none",
     result |-> "Ok", list |-> <<"X", "Y">>],
    [op |-> "transfer", signer |-> "any", key |-> "Y", marker |-> "true",
     result |-> "Ok", list |-> <<"X", "Y">>],
    [op |-> "transfer", signer |-> "any", key |-> "Z", marker |-> "true",
     result |-> "PanicNotInWhiteList", list |-> <<"X", "Y">>],
    [op |-> "hook", signer |-> "any", key |-> "Y", marker |-> "false",
     result |-> "IsNotCurrentlyTransferring", list |-> <<"X", "Y">>],
    [op |-> "remove", signer |-> "A", key |-> "X", marker |-> "none",
     result |-> "Ok", list |-> <<"Y">>],
    [op |-> "remove", signer |-> "A", key |-> "X", marker |-> "none",
     result |-> "AccountNotFound", list |-> <<"Y">> ] >>

\* the instruction l is the call of scenario step s (a hook or transfer
\* step is any call that reaches the handler for that destination and marker)
SameCall(l, s) ==
    /\ l.op = s.op
    /\ l.key = s.key
    /\ l.marker = s.marker
    /\ IF s.signer = "any" THEN l.accounts = "Ok" ELSE l.signer = s.signer

\* the stage after instruction l: one further along the scenario, or past
\* its end once the run has left it
Advance(st, l) ==
    IF st < Len(Scenario) /\ SameCall(l, Scenario[st + 1]) THEN st + 1
    ELSE Len(Scenario) + 1

\* the transactions that may be in flight at once
Txns == {"t1", "t2"}
Idle == [pc |-> "idle", op |-> "none", signer |-> NoKey, key |-> NoKey, loaded |-> <<>>]

\* ------------------------------------------------- state machine
\* the record of an instruction: its arguments, for the hook the source's
\* marker before and after and the outcome of account validation, and its
\* result
Call(op, signer, key, mint, source, amount, marker, marker_after, accounts, result) ==
    [op |-> op, signer |-> signer, key |-> key, mint |-> mint, source |-> source,
     amount |-> amount, marker |-> marker, marker_after |-> marker_after,
     accounts |-> accounts, result |-> result]

Init ==
    /\ initialized = FALSE
    /\ authority = NoKey
    /\ white_list = <<>>
    /\ extra_account_meta_list = [m \in Mints |-> FALSE]
    /\ balance = [k \in Pubkey |-> InitialBalance]
    /\ creator = NoKey
    /\ last = Call("none", NoKey, NoKey, "none", NoKey, 0, "none", "none", "none", "Ok")
    /\ stage = 0
    /\ pending = [t \in Txns |-> Idle]

\* initialize_extra_account_meta_list, paid by `payer`, for `mint`
Initialize(payer, mint) ==
    LET r == InitializeInstruction(initialized, authority, white_list,
                                   extra_account_meta_list, payer, mint)
    IN  /\ initialized' = r.initialized
        /\ authority' = r.authority
        /\ white_list' = r.white_list
        /\ extra_account_meta_list' = r.meta
        /\ creator' = IF ~initialized /\ r.initialized THEN payer ELSE creator
        /\ last' = Call("initialize", payer, NoKey, mint, NoKey, 0, "none", "none", "none", r.result)
        /\ stage' = Advance(stage, last')
        /\ UNCHANGED <<balance, pending>>

\* add_to_whitelist signed by `signer`
Add(signer, new_account) ==
    LET r == AddInstruction(initialized, authority, white_list, signer, new_account)
    IN  /\ Len(white_list) < MaxLen
        /\ white_list' = r.white_list
        /\ last' = Call("add", signer, new_account, "none", NoKey, 0, "none", "none", "none", r.result)
        /\ stage' = Advance(stage, last')
        /\ UNCHANGED <<initialized, authority, extra_account_meta_list, balance, creator,
                       pending>>

\* add_to_whitelist signed by `signer`, on a list of any length
AddToCapacity(signer, new_account) ==
    LET r == AddInstruction(initialized, authority, white_list, signer, new_account)
    IN  /\ white_list' = r.white_list
        /\ last' = Call("add", signer, new_account, "none", NoKey, 0, "none", "none", "none", r.result)
        /\ stage' = Advance(stage, last')
        /\ UNCHANGED <<initialized, authority, extra_account_meta_list, balance, creator,
                       pending>>

\* remove_from_whitelist signed by `signer`
Remove(signer, account_to_remove) ==
    LET r == RemoveInstruction(initialized, authority, white_list, signer, account_to_remove)
    IN  /\ white_list' = r.white_list
        /\ last' = Call("remove", signer, account_to_remove, "none", NoKey, 0, "none", "none", "none", r.result)
        /\ stage' = Advance(stage, last')
        /\ UNCHANGED <<initialized, authority, extra_account_meta_list, balance, creator,
                       pending>>

\* transfer_hook invoked directly, outside any transfer: the source's marker
\* is whatever the account stores
DirectHookAmount(source_token, mint, destination_token, owner, amount) ==
    LET r == TransferHookInstruction(initialized, white_list, source_token, mint,
                                     destination_token, owner, StoredMarker(source_token),
                                     amount)
        after == TransferHookEffect(initialized, white_list, source_token, mint,
                                    destination_token, owner, StoredMarker(source_token),
                                    amount)
        accounts == TransferHook(initialized, source_token, mint, destination_token, owner)
    IN  /\ white_list' = after.white_list
        /\ last' = Call("hook", NoKey, destination_token, "none", NoKey, amount,
                        StoredMarker(source_token), after.marker, accounts, r)
        /\ stage' = Advance(stage, last')
        /\ UNCHANGED <<initialized, authority, extra_account_meta_list,
                       balance, creator, pending>>

\* the same with amount 0
DirectHook(source_token, mint, destination_token, owner) ==
    DirectHookAmount(source_token, mint, destination_token, owner, 0)

\* a transfer of the hooked mint driven by the transfer engine
Transfer(source_token, destination_token, amount) ==
    LET r == EngineTransfer(initialized, white_list, extra_account_meta_list, balance,
                            source_token, destination_token, amount)
    IN  /\ TokenMint(source_token) = HookedMint
        /\ TokenMint(destination_token) = HookedMint
        /\ balance' = r.balance
        /\ white_list' = r.white_list
        /\ last' = Call("transfer", TokenOwner(source_token), destination_token, HookedMint,
                        source_token, amount, "true", r.marker,
                        IF r.result \in EngineErrors THEN "none"
                        ELSE TransferHook(initialized, source_token, HookedMint,
                                          destination_token, TokenOwner(source_token)),
                        r.result)
        /\ stage' = Advance(stage, last')
        /\ UNCHANGED <<initialized, authority, extra_account_meta_list, creator, pending>>

Next ==
    \/ \E payer \in Signers, mint \in Mints : Initialize(payer, mint)
    \/ \E signer \in Signers, k \in Pubkey : Add(signer, k)
    \/ \E signer \in Signers, k \in Pubkey : Remove(signer, k)
    \/ \E s \in Pubkey, m \in Mints, d \in Pubkey, o \in Signers : DirectHook(s, m, d, o)
    \/ \E s \in Pubkey, d \in Pubkey, a \in 1..MaxAmount : Transfer(s, d, a)

Spec == Init /\ [][Next]_vars

\* The list grown to the end of its allocation: adds of one key, unbounded.
CapacityKeys == {"X"}

NextCap ==
    \/ \E payer \in Signers, mint \in Mints : Initialize(payer, mint)
    \/ \E signer \in Signers, k \in CapacityKeys : AddToCapacity(signer, k)
    \/ \E signer \in Signers, k \in Pubkey : Remove(signer, k)

SpecCap == Init /\ [][NextCap]_vars

\* ------------------------------------------------- transactions in flight
white_list_constraint_readonly(op) == "readonly"

\* how AddToWhiteList and RemoveFromWhiteList declare white_list
white_list_constraint(op) == "mut"

\* the list after the instruction returned `r` on an account that held
\* `stored`: an account is written back at exit only when declared mut
exit_account(op, stored, r) ==
    IF white_list_constraint(op) = "mut" THEN r.white_list ELSE stored

\* some transaction in flight holds the write lock of white_list
WriteLocked(p) == \E t \in Txns : p[t].pc = "loaded"

\* the keys the transactions in flight add and remove
ConcurrentKeys == {"X", "Y"}

\* the authority sends transaction t: add or remove of `key`
Submit(t, op, key) ==
    /\ pending[t].pc = "idle"
    /\ pending' = [pending EXCEPT ![t] =
                      [pc |-> "submitted", op |-> op, signer |-> authority, key |-> key,
                       loaded |-> <<>>]]
    /\ stage' = stage
    /\ UNCHANGED <<initialized, authority, white_list, extra_account_meta_list, balance,
                   creator, last>>

\* the runtime starts t: a transaction that declares white_list writable
\* waits until no other holds it; the account is then loaded
Schedule(t) ==
    /\ pending[t].pc = "submitted"
    /\ white_list_constraint(pending[t].op) = "mut" => ~WriteLocked(pending)
    /\ pending[t].op = "add" => Len(white_list) < MaxLen
    /\ pending' = [pending EXCEPT ![t].pc = "loaded", ![t].loaded = white_list]
    /\ stage' = stage
    /\ UNCHANGED <<initialized, authority, white_list, extra_account_meta_list, balance,
                   creator, last>>

\* t's instruction runs on the account it loaded and the account is written
\* back; the lock is released
Commit(t) ==
    LET c == pending[t]
        r == IF c.op = "add"
             THEN AddInstruction(initialized, authority, c.loaded, c.signer, c.key)
             ELSE RemoveInstruction(initialized, authority, c.loaded, c.signer, c.key)
    IN  /\ c.pc = "loaded"
        /\ white_list' = exit_account(c.op, white_list, r)
        /\ last' = Call(c.op, c.signer, c.key, "none", NoKey, 0, "none", "none", "none",
                        r.result)
        /\ pending' = [pending EXCEPT ![t] = Idle]
        /\ stage' = Advance(stage, last')
        /\ UNCHANGED <<initialized, authority, extra_account_meta_list, balance, creator>>

\* initialize writes white_list too and waits for the lock like the others
InitializeSerial(payer, mint) ==
    /\ ~WriteLocked(pending)
    /\ Initialize(payer, mint)

NextConcurrent ==
    \/ \E payer \in Signers, mint \in Mints : InitializeSerial(payer, mint)
    \/ \E t \in Txns, op \in {"add", "remove"}, k \in ConcurrentKeys : Submit(t, op, k)
    \/ \E t \in Txns : Schedule(t)
    \/ \E t \in Txns : Commit(t)

SpecConcurrent == Init /\ [][NextConcurrent]_vars

\* Hook calls with every amount, on accounts that pass validation of the
\* source (its own mint and owner); the list is built by its authority.
NextAmount ==
    \/ \E payer \in Signers, mint \in Mints : Initialize(payer, mint)
    \/ \E k \in Pubkey : Add(authority, k)
    \/ \E s \in Pubkey, d \in Pubkey, a \in 0..MaxAmount :
           DirectHookAmount(s, TokenMint(s), d, TokenOwner(s), a)
    \/ \E s \in Pubkey, d \in Pubkey, a \in 1..MaxAmount : Transfer(s, d, a)

SpecAmount == Init /\ [][NextAmount]_vars

\* ------------------------------------------------- properties
\* number of occurrences of k in v
count(v, k) == Cardinality({i \in 1..Len(v) : v[i] = k})

\* the handler of transfer_hook ran in the last instruction: the instruction
\* was the hook (called directly or by the engine) and its accounts passed
\* validation
HookCalled ==
    /\ last.op \in {"hook", "transfer"}
    /\ last.accounts = "Ok"

\* C1: a transfer driven by the engine completes (moves balances) only if
\* the destination is in white_list when the hook runs, and when the hook
\* rejects, no balance changes.
C1_TransferGate ==
    [][last'.op \in {"transfer", "hook"} =>
        /\ (last'.op = "transfer" /\ last'.result = "Ok") => contains(white_list, last'.key)
        /\ balance' # balance => (last'.result = "Ok" /\ contains(white_list, last'.key))
        /\ last'.result # "Ok" => balance' = balance]_vars

C1_Witness ==
    /\ last.op = "transfer"
    /\ last.result = "Ok"
    /\ last.source # last.key
    /\ balance[last.key] > InitialBalance

\* C2: transfer_hook succeeds exactly when the destination is in white_list
\* and the source's transferring flag is true.
C2_HookIff ==
    HookCalled =>
        (last.result = "Ok" <=> (contains(white_list, last.key) /\ last.marker = "true"))

C2_Witness ==
    /\ HookCalled
    /\ last.result = "Ok"
    /\ Len(white_list) >= 2

\* C3: with the transferring flag false, transfer_hook fails with
\* IsNotCurrentlyTransferring whether or not the destination is listed.
C3_GuardFirst ==
    (HookCalled /\ last.marker = "false") => last.result = "IsNotCurrentlyTransferring"

C3_Witness ==
    /\ HookCalled
    /\ last.marker = "false"
    /\ ~contains(white_list, last.key)
    /\ white_list # <<>>
    /\ last.result = "IsNotCurrentlyTransferring"

\* C4 as claimed: a source without the extension fails with
\* IsNotCurrentlyTransferring, as a source whose flag is false does.
C4_AbsentSameError ==
    (HookCalled /\ last.marker = "absent") => last.result = "IsNotCurrentlyTransferring"

\* C4 as amended: a source without the extension fails, listed destination
\* or not, with the error of the extension lookup, which is not
\* IsNotCurrentlyTransferring.
C4_AbsentFails ==
    (HookCalled /\ last.marker = "absent") =>
        (last.result = "ExtensionLookupError" /\ last.result # "Ok")

C4_Witness ==
    /\ HookCalled
    /\ last.marker = "absent"
    /\ contains(white_list, last.key)
    /\ last.result = "ExtensionLookupError"

\* C5: add_to_whitelist signed by the authority, on a list below capacity,
\* succeeds and appends the key at the tail: one element longer, every
\* earlier element in place, one more occurrence of the key.
C5_AddAppends ==
    [][(/\ last'.op = "add"
        /\ initialized
        /\ last'.signer = authority
        /\ serialized_len(white_list) + PubkeyBytes <= Space) =>
        /\ last'.result = "Ok"
        /\ Len(white_list') = Len(white_list) + 1
        /\ \A i \in 1..Len(white_list) : white_list'[i] = white_list[i]
        /\ white_list'[Len(white_list')] = last'.key
        /\ count(white_list', last'.key) = count(white_list, last'.key) + 1]_vars

C5_Witness ==
    /\ last.op = "add"
    /\ last.result = "Ok"
    /\ count(white_list, last.key) = 2
    /\ Len(white_list) = 3
    /\ white_list[1] # last.key

\* C6: remove_from_whitelist signed by the authority removes the first
\* occurrence of the key and keeps the order of the rest; for a key that
\* does not occur it returns AccountNotFound and leaves the list alone.
C6_RemoveFirst ==
    [][(/\ last'.op = "remove"
        /\ initialized
        /\ last'.signer = authority) =>
        IF \E i \in 1..Len(white_list) : white_list[i] = last'.key
        THEN /\ last'.result = "Ok"
             /\ Len(white_list') = Len(white_list) - 1
             /\ \E i \in 1..Len(white_list) :
                   /\ white_list[i] = last'.key
                   /\ \A j \in 1..(i - 1) : white_list[j] # last'.key
                   /\ \A j \in 1..(i - 1) : white_list'[j] = white_list[j]
                   /\ \A j \in i..Len(white_list') : white_list'[j] = white_list[j + 1]
        ELSE /\ last'.result = "AccountNotFound"
             /\ white_list' = white_list]_vars

C6_Witness ==
    /\ last.op = "remove"
    /\ last.result = "Ok"
    /\ Len(white_list) = 2
    /\ white_list[1] # last.key
    /\ white_list[2] = last.key

\* C7: add and remove signed by anyone but the authority fail at the
\* authority check, before any search, and leave authority and white_list
\* as they were.
C7_NonAuthorityRejected ==
    [][(/\ last'.op \in {"add", "remove"}
        /\ initialized
        /\ last'.signer # authority) =>
        /\ last'.result = (IF last'.op = "add" THEN "PanicOnlyAuthorityAdd"
                           ELSE "PanicOnlyAuthorityRemove")
        /\ white_list' = white_list
        /\ authority' = authority]_vars

C7_Witness ==
    /\ last.op = "remove"
    /\ initialized
    /\ last.signer # authority
    /\ white_list # <<>>
    /\ ~contains(white_list, last.key)
    /\ last.result = "PanicOnlyAuthorityRemove"

\* C8 as claimed: once white_list exists, no further initialize, succeeding
\* or failing, changes authority or white_list.
C8_InitializeIdempotent ==
    [][(initialized /\ last'.op = "initialize") =>
        (authority' = authority /\ white_list' = white_list)]_vars

\* C9 as claimed: once white_list exists, authority is the payer of the
\* call that created it.
C9_AuthorityIsCreator ==
    initialized => authority = creator

\* outcomes of the abort class: the panics and the in-flight guard's errors
AbortOutcomes == Panics \cup {"IsNotCurrentlyTransferring", "ExtensionLookupError"}

\* C10: AccountNotFound is returned for, and only for, a remove by the
\* authority of a key that does not occur; the in-flight guard, the
\* membership check and the authority check fail with other outcomes, and
\* none of the four guards lets a failing call succeed or change state.
C10_ErrorClasses ==
    [][LET r == last'.result
           frame == UNCHANGED <<initialized, authority, white_list,
                                extra_account_meta_list, balance>>
       IN  /\ r = "AccountNotFound" =>
                 /\ last'.op = "remove" /\ initialized /\ last'.signer = authority
                 /\ ~contains(white_list, last'.key)
           /\ (last'.op \in {"add", "remove"} /\ initialized) =>
                 IF last'.signer # authority
                 THEN r \in Panics /\ r # "AccountNotFound" /\ frame
                 ELSE (last'.op = "remove" /\ ~contains(white_list, last'.key)) =>
                          (r = "AccountNotFound" /\ frame)
           /\ HookCalled' =>
                 IF last'.marker # "true"
                 THEN r \in AbortOutcomes /\ r # "AccountNotFound" /\ frame
                 ELSE ~contains(white_list, last'.key) =>
                          (r \in Panics /\ r # "AccountNotFound" /\ frame)]_vars

C10_Witness ==
    /\ last.op = "remove"
    /\ last.result = "AccountNotFound"
    /\ white_list # <<>>

\* C12: the scenario holds step by step: A initializes; A adds X then Y and
\* the list is <<X, Y>>; a transfer to Y with the marker set succeeds, one to
\* Z fails at the membership check, a hook call for Y with the marker clear
\* fails with IsNotCurrentlyTransferring; A removes X and the list is <<Y>>;
\* A removing X again gets AccountNotFound and the list stays <<Y>>.
C12_Scenario ==
    stage \in 1..Len(Scenario) =>
        /\ last.result = Scenario[stage].result
        /\ white_list = Scenario[stage].list
        /\ authority = "A"

C12_Witness ==
    /\ stage = Len(Scenario)
    /\ last.result = "AccountNotFound"
    /\ white_list = <<"Y">>

\* C11: white_list never holds more than the 400-byte allocation takes
\* (8 + 32 + 4 + 32 per entry, so 11 entries), and an add by the authority
\* on a full list fails with the storage error and leaves the list alone.
C11_Capacity ==
    [][/\ Len(white_list') <= 11
       /\ serialized_len(white_list') <= Space
       /\ (/\ last'.op = "add" /\ initialized /\ last'.signer = authority
           /\ Len(white_list) = 11) =>
              (last'.result = "AccountDidNotSerialize" /\ white_list' = white_list)
       /\ (/\ last'.op = "add" /\ initialized /\ last'.signer = authority
           /\ Len(white_list) < 11) =>
              (last'.result = "Ok" /\ Len(white_list') = Len(white_list) + 1)]_vars

C11_Witness ==
    /\ last.op = "add"
    /\ last.signer = authority
    /\ last.result = "AccountDidNotSerialize"
    /\ Len(white_list) = 11

\* C13: an initialize that succeeds while white_list does not exist yet
\* leaves authority equal to the payer and white_list empty.
C13_InitializeCreates ==
    [][(~initialized /\ last'.op = "initialize" /\ last'.result = "Ok") =>
        /\ initialized'
        /\ authority' = last'.signer
        /\ authority' \in Signers
        /\ white_list' = <<>>]_vars

C13_Witness ==
    /\ last.op = "initialize"
    /\ last.result = "Ok"
    /\ initialized
    /\ authority = last.signer
    /\ white_list = <<>>
    /\ \A m \in Mints : extra_account_meta_list[m] <=> m = last.mint

C19_BootstrapFirst ==
    [][~initialized =>
        /\ last'.op \in {"add", "remove", "hook"} =>
              (last'.result = "AccountNotInitialized" /\ ~initialized')
        /\ last'.op = "transfer" => (last'.result # "Ok" /\ ~initialized')
        /\ initialized' => (last'.op = "initialize" /\ last'.result = "Ok")
        /\ ~initialized' => (white_list' = <<>> /\ authority' = NoKey)]_vars

C19_Witness ==
    /\ ~initialized
    /\ last.op = "add"
    /\ last.result = "AccountNotInitialized"

\* C20: initialize succeeds exactly when the mint has no ExtraAccountMetaList
\* yet: a second initialize for the same mint fails, one for a fresh mint
\* succeeds although white_list already exists.
C20_OncePerMint ==
    [][last'.op = "initialize" =>
        /\ last'.result = "Ok" <=> ~extra_account_meta_list[last'.mint]
        /\ extra_account_meta_list[last'.mint] =>
              (last'.result = "AccountAlreadyInUse"
               /\ extra_account_meta_list' = extra_account_meta_list)
        /\ last'.result = "Ok" =>
              extra_account_meta_list' =
                  [extra_account_meta_list EXCEPT ![last'.mint] = TRUE]]_vars

C20_Witness ==
    /\ last.op = "initialize"
    /\ last.result = "Ok"
    /\ white_list # <<>>
    /\ \A m \in Mints : extra_account_meta_list[m]

\* C15: occurrences are counted: a successful remove of a key takes away
\* exactly one of its occurrences and none of any other key, and a hook call
\* with the marker set succeeds for a destination as long as one occurrence
\* is left, so it fails only once every occurrence has been removed.
C15_DuplicatesCounted ==
    [][/\ (last'.op = "remove" /\ last'.result = "Ok") =>
              /\ count(white_list, last'.key) >= 1
              /\ \A k \in Pubkey :
                    count(white_list', k) =
                        count(white_list, k) - (IF k = last'.key THEN 1 ELSE 0)
       /\ (HookCalled' /\ last'.marker = "true") =>
              (last'.result = "Ok" <=> count(white_list, last'.key) >= 1)
       /\ (last.op = "remove" /\ last.result = "Ok" /\ HookCalled'
           /\ last'.marker = "true" /\ last'.key = last.key) =>
              /\ count(white_list, last.key) >= 1 => last'.result = "Ok"
              /\ count(white_list, last.key) = 0 => last'.result = "PanicNotInWhiteList"]_vars

C15_Witness ==
    /\ last.op = "remove"
    /\ last.result = "Ok"
    /\ count(white_list, last.key) >= 1
    /\ TokenMint(last.key) = HookedMint
    /\ extra_account_meta_list[HookedMint]

\* C14: the hook is a pure gate: whether it accepts or rejects, called
\* directly or by the engine, white_list and its authority, every
\* ExtraAccountMetaList and the source's marker are as they were.
C14_PureGate ==
    [][last'.op \in {"hook", "transfer"} =>
        /\ UNCHANGED <<initialized, authority, white_list, extra_account_meta_list>>
        /\ last'.marker_after = last'.marker]_vars

C14_Witness ==
    /\ last.op = "transfer"
    /\ last.result = "Ok"
    /\ last.marker_after = "true"
    /\ Len(white_list) >= 2

\* C17: the outcome of the hook does not depend on the amount: two calls in
\* a row that reach the handler with the same destination, the same marker
\* and the same white_list, and differ in amount, have the same result.
C17_AmountIgnored ==
    [][(/\ HookCalled /\ HookCalled'
        /\ last'.key = last.key
        /\ last'.marker = last.marker
        /\ white_list' = white_list
        /\ last'.amount # last.amount) =>
        last'.result = last.result]_vars

C17_Witness ==
    /\ last.op = "transfer"
    /\ last.result = "Ok"
    /\ last.amount = MaxAmount
    /\ last.amount > 1

\* a transaction's instruction has just returned Ok
Committed(t) ==
    /\ pending[t].pc = "loaded"
    /\ pending'[t].pc = "idle"
    /\ last'.result = "Ok"

\* C18: add and remove calls of the authority in flight at once are
\* serialized: one at a time holds white_list, what it loaded is what the
\* account holds, a call that succeeds leaves exactly its own update of the
\* current list (so the list is the successful calls applied in the order
\* they committed), and nothing else changes the list.
C18_Serialized ==
    /\ [](\A t, u \in Txns :
             (pending[t].pc = "loaded" /\ pending[u].pc = "loaded") => t = u)
    /\ [](\A t \in Txns : pending[t].pc = "loaded" => pending[t].loaded = white_list)
    /\ [][/\ \A t \in Txns : Committed(t) =>
                 white_list' = IF pending[t].op = "add"
                               THEN push(white_list, pending[t].key)
                               ELSE remove(white_list, position(white_list, pending[t].key))
          /\ white_list' # white_list => \E t \in Txns : Committed(t)]_vars

C18_Witness ==
    /\ last.op = "remove"
    /\ last.result = "Ok"
    /\ \E t \in Txns :
          /\ pending[t].pc = "loaded"
          /\ pending[t].op = "add"
          /\ pending[t].key = last.key
          /\ Len(pending[t].loaded) >= 1
    /\ \E t \in Txns : pending[t].pc = "submitted"

====
